---- MODULE Spec2Model ----
(***************************************************************************)
(* DocCheck: docstring-embedded tests.                                     *)
(*                                                                         *)
(* Text is modelled as a sequence of tokens.  A token is one character     *)
(* ("(", ":", " ", "\n", ...) or one indivisible piece of text: a tag      *)
(* word (">>test", ">>error", ">>example1", ...) or an expression atom     *)
(* ("1", "0", "boom", "A.example1", "lambda").  The code only ever looks   *)
(* at brackets, line breaks, whitespace, colons and the tag words, so the  *)
(* remaining characters are kept together.                                 *)
(***************************************************************************)
EXTENDS Integers, Sequences, FiniteSets, TLC

(***************************************************************************)
(* Bounds                                                                  *)
(***************************************************************************)
MaxTotalLines == 3
MaxLen == 6
MaxFiles == 2

(***************************************************************************)
(* Generic helpers                                                         *)
(***************************************************************************)
Min(S) == CHOOSE x \in S : \A y \in S : x <= y
Max(S) == CHOOSE x \in S : \A y \in S : x >= y

RECURSIVE Flatten(_)
Flatten(ss) == IF ss = <<>> THEN <<>> ELSE Head(ss) \o Flatten(Tail(ss))

SeqsUpTo(S, n) == UNION {[1..k -> S] : k \in 0..n}

(***************************************************************************)
(* Line Reflow: safe_Splitlines_Preserving_Parentheses                     *)
(***************************************************************************)
LineBoundaries == {"\n", "\r"}
Whitespace == {" ", "\t", "\n", "\r"}

\* the character walk: result_chars for text[i..], given the three depths
RECURSIVE MergeFrom(_, _, _, _, _)
MergeFrom(text, i, paren_depth, bracket_depth, brace_depth) ==
  IF i > Len(text) THEN <<>>
  ELSE LET ch == text[i] IN
    IF ch = "(" THEN <<ch>> \o MergeFrom(text, i + 1, paren_depth + 1, bracket_depth, brace_depth)
    ELSE IF ch = ")" THEN <<ch>> \o MergeFrom(text, i + 1, Max({0, paren_depth - 1}), bracket_depth, brace_depth)
    ELSE IF ch = "[" THEN <<ch>> \o MergeFrom(text, i + 1, paren_depth, bracket_depth + 1, brace_depth)
    ELSE IF ch = "]" THEN <<ch>> \o MergeFrom(text, i + 1, paren_depth, Max({0, bracket_depth - 1}), brace_depth)
    ELSE IF ch = "{" THEN <<ch>> \o MergeFrom(text, i + 1, paren_depth, bracket_depth, brace_depth + 1)
    ELSE IF ch = "}" THEN <<ch>> \o MergeFrom(text, i + 1, paren_depth, bracket_depth, Max({0, brace_depth - 1}))
    ELSE IF ch = "\n" /\ (paren_depth > 0 \/ bracket_depth > 0 \/ brace_depth > 0)
         THEN <<" ">> \o MergeFrom(text, i + 1, paren_depth, bracket_depth, brace_depth)
         ELSE <<ch>> \o MergeFrom(text, i + 1, paren_depth, bracket_depth, brace_depth)

merged_text(text) == MergeFrom(text, 1, 0, 0, 0)

\* str.splitlines(): cut at every line boundary; no empty last line
RECURSIVE splitlines(_)
splitlines(s) ==
  IF s = <<>> THEN <<>>
  ELSE LET brk == {i \in 1..Len(s) : s[i] \in LineBoundaries} IN
    IF brk = {} THEN <<s>>
    ELSE LET i == Min(brk) IN <<SubSeq(s, 1, i - 1)>> \o splitlines(SubSeq(s, i + 1, Len(s)))

\* ' '.join(raw_line.split()): trim, and collapse every whitespace run to one space
CollapseWhitespace(raw_line) ==
  LET keep(i) == raw_line[i] \notin Whitespace
      piece(i) == IF ~keep(i) THEN <<>>
                  ELSE IF i > 1 /\ ~keep(i - 1) /\ (\E j \in 1..(i - 1) : keep(j))
                       THEN <<" ", raw_line[i]>>
                       ELSE <<raw_line[i]>>
  IN Flatten([i \in 1..Len(raw_line) |-> piece(i)])

safe_Splitlines_Preserving_Parentheses(text) ==
  LET raw == splitlines(merged_text(text))
      collapsed == [k \in 1..Len(raw) |-> CollapseWhitespace(raw[k])]
  IN SelectSeq(collapsed, LAMBDA line : line # <<>>)

(***************************************************************************)
(* Tag detection and payload                                               *)
(***************************************************************************)
ExampleWords == {">>example", ">>example1", ">>example2"}

\* ">>example" in doc
HasExampleWord(doc) == \E i \in 1..Len(doc) : doc[i] \in ExampleWords

\* positions where re.search(r">>example(\d+):", doc) can match
ExampleMatches(doc) ==
  {i \in 1..(Len(doc) - 1) : doc[i] \in {">>example1", ">>example2"} /\ doc[i + 1] = ":"}

\* int(match.group(1)) of the first match
example_id(doc) ==
  LET i == Min(ExampleMatches(doc)) IN IF doc[i] = ">>example1" THEN 1 ELSE 2

\* ">>test:" in doc
HasTestMarker(doc) == \E i \in 1..(Len(doc) - 1) : doc[i] = ">>test" /\ doc[i + 1] = ":"

\* ">>error:" in doc
HasErrorMarker(doc) == \E i \in 1..(Len(doc) - 1) : doc[i] = ">>error" /\ doc[i + 1] = ":"

\* doc.split(":")[-1]
payload(doc) ==
  LET colons == {i \in 1..Len(doc) : doc[i] = ":"} IN
  IF colons = {} THEN doc ELSE SubSeq(doc, Max(colons) + 1, Len(doc))

(***************************************************************************)
(* Python values and eval()                                                *)
(***************************************************************************)
ClassNames == <<"A", "B">>
ExampleIds == {1, 2}
NoAttr == "<no attribute>"

Literals == {"0", "1", "2"}
\* bool(v)
Truthy(v) == v \notin {"0", "False"}
\* a and b
PyAnd(a, b) == IF Truthy(a) THEN b ELSE a

RefTokens == {"cls.example1", "A.example1", "B.example1"}
RefName(tok) == CASE tok = "cls.example1" -> "cls"
                  [] tok = "A.example1" -> "A"
                  [] tok = "B.example1" -> "B"
RefId(tok) == 1

Raised == [raised |-> TRUE, val |-> "Exception"]
Value(v) == [raised |-> FALSE, val |-> v]

StripSpaces(toks) == SelectSeq(toks, LAMBDA t : t \notin Whitespace)

\* whether the stripped token sequence parses as one expression
RECURSIVE IsExpression(_)
IsExpression(e) ==
  \/ Len(e) = 1 /\ e[1] \in Literals \cup RefTokens \cup {"boom"}
  \/ Len(e) >= 3 /\ e[1] = "(" /\ e[Len(e)] = ")" /\ IsExpression(SubSeq(e, 2, Len(e) - 1))
  \/ Len(e) >= 3 /\ e[1] = "lambda" /\ e[2] = ":" /\ IsExpression(SubSeq(e, 3, Len(e)))

\* eval(source, eval_env): the outcome of evaluating a token sequence, given
\* the scope eval_env and the example attributes attrs of the classes
RECURSIVE EvalExpression(_, _, _)
EvalExpression(e, eval_env, attrs) ==
  IF ~IsExpression(e) THEN Raised                          \* SyntaxError
  ELSE IF e[1] = "(" THEN EvalExpression(SubSeq(e, 2, Len(e) - 1), eval_env, attrs)
  ELSE IF e[1] = "lambda" THEN Value("function")
  ELSE IF e[1] = "boom" THEN Raised                        \* such as 10/0
  ELSE IF e[1] \in Literals THEN Value(e[1])
  ELSE LET n == RefName(e[1]) IN
    IF n \notin DOMAIN eval_env THEN Raised                \* NameError
    ELSE IF eval_env[n] \notin DOMAIN attrs THEN Raised    \* not a class
    ELSE IF attrs[eval_env[n]][RefId(e[1])] = NoAttr THEN Raised   \* AttributeError
    ELSE Value(attrs[eval_env[n]][RefId(e[1])])

eval(source, eval_env, attrs) == EvalExpression(StripSpaces(source), eval_env, attrs)

(***************************************************************************)
(* The project on disk (the environment of one invocation)                 *)
(***************************************************************************)
\* all member names the model uses, in the order sorted() gives them
SortedMemberNames == <<"__init__", "draft_Format", "lets_Hope_This_Test_Work", "nothing">>

\* lines of a documentation string, as written in the source file
RECURSIVE JoinLines(_)
JoinLines(lines) ==
  IF lines = <<>> THEN <<>>
  ELSE IF Len(lines) = 1 THEN lines[1]
  ELSE lines[1] \o <<"\n">> \o JoinLines(Tail(lines))

NoDoc == <<>>

\* sandbox/draft_class.py: DraftClass, with documentation own_doc and fn_doc
ClassA(own_doc, fn_doc) ==
  [name |-> "A", doc |-> own_doc,
   members |-> [n \in {"__init__", "draft_Format"} |->
                  IF n = "__init__" THEN [kind |-> "function", doc |-> NoDoc]
                  ELSE [kind |-> "function", doc |-> fn_doc]]]

\* doccheck/sandbox/draft_static_class.py: DraftStaticClass
ClassB(own_doc) ==
  [name |-> "B", doc |-> own_doc,
   members |-> [n \in {"lets_Hope_This_Test_Work", "nothing"} |->
                  IF n = "nothing" THEN [kind |-> "classmethod", doc |-> <<"a">>]
                  ELSE [kind |-> "classmethod",
                        doc |-> <<"a", "\n", ">>test", ":", " ", "1">>]]]

\* a package without classes, and every way to write at most MaxTotalLines
\* lines of the catalogue cat into the three documentation strings
Projects(cat) ==
  {[classes |-> <<>>, order |-> <<>>, module_globals |-> <<>>]} \cup
  {[classes |-> (ClassNames[1] :> ClassA(JoinLines(SubSeq(x[1], 1, x[2])),
                                         JoinLines(SubSeq(x[1], x[2] + 1, x[3]))))
             @@ (ClassNames[2] :> ClassB(JoinLines(SubSeq(x[1], x[3] + 1, Len(x[1]))))),
    order |-> ClassNames,
    module_globals |-> [n \in {"A", "B"} |-> n]] :
     x \in {y \in SeqsUpTo(cat, MaxTotalLines) \X (0..MaxTotalLines) \X (0..MaxTotalLines) :
              y[2] <= y[3] /\ y[3] <= Len(y[1])}}

(***************************************************************************)
(* State                                                                   *)
(***************************************************************************)
VARIABLES
  project,          \* the package on disk: its classes and module bindings
  pc,               \* where main() / DocCheck.run() stands
  classes_list,     \* DocCheck.classes_list
  docstrings,       \* class -> its _docstrings attribute
  examples,         \* class -> example id -> value of the attribute example<id>
  stdout,           \* what the evaluation of each tagged line printed
  result,           \* run_Classes_Tests: result
  test_processed,   \* run_Classes_Tests: test_processed
  run_result,       \* the value DocCheck.run returned to main
  exit_code,        \* the exit status of the process
  text,             \* Line Reflow on its own: the documentation string
  logical_lines,    \* Line Reflow on its own: the lines returned
  argv,             \* src/doccheck.py: sys.argv[1:]
  python_files,     \* src/doccheck.py: the *.py files under the project root
  failed_total,     \* run_From_CLI: failed_total
  tested_files      \* run_From_CLI: tested_files

vars == <<project, pc, classes_list, docstrings, examples, stdout, result,
          test_processed, run_result, exit_code, text, logical_lines,
          argv, python_files, failed_total, tested_files>>

cli_vars == <<argv, python_files, failed_total, tested_files>>

NotReturned == "<not returned>"
Running == -1

(***************************************************************************)
(* load_Classes_Docstrings                                                 *)
(***************************************************************************)
\* inspect.getmembers + the isfunction / isinstance filter: getattr on the
\* class unwraps a staticmethod to its function and binds a classmethod
IsCollected(member) == member.kind \in {"function", "staticmethod"}

tmp_list(class_instance) ==
  LET own == IF class_instance.doc # NoDoc
             THEN safe_Splitlines_Preserving_Parentheses(class_instance.doc) ELSE <<>>
      member_lines(n) == IF n \in DOMAIN class_instance.members
                  /\ IsCollected(class_instance.members[n])
                  /\ class_instance.members[n].doc # NoDoc
               THEN safe_Splitlines_Preserving_Parentheses(class_instance.members[n].doc)
               ELSE <<>>
  IN own \o Flatten([k \in 1..Len(SortedMemberNames) |-> member_lines(SortedMemberNames[k])])

(***************************************************************************)
(* The loops over classes_list and each class's _docstrings                *)
(***************************************************************************)
\* the (class, doc) pairs in the order the nested for loops visit them
Items(classes, docs) ==
  Flatten([k \in 1..Len(classes) |->
             [j \in 1..Len(docs[classes[k]]) |-> [cls |-> classes[k], doc |-> docs[classes[k]][j]]]])

\* {"cls": class_instance, class_instance.__name__: class_instance, **module_globals}
eval_env(class_instance, module_globals) ==
  module_globals @@ [n \in {"cls", class_instance} |-> class_instance]

Printed(kind, it, txt, passed) == [kind |-> kind, cls |-> it.cls, text |-> txt, passed |-> passed]

(***************************************************************************)
(* load_Classes_Examples                                                   *)
(***************************************************************************)
\* variant of ExampleRaised: the exception is printed and the loop goes on
ExampleRaisedSwallowed(st, it) ==
  [st EXCEPT !.out = Append(@, Printed("example", it, it.doc, "False"))]

\* the except branch: print, return False
ExampleRaised(st, it) ==
  [st EXCEPT !.status = "False", !.out = Append(@, Printed("example", it, it.doc, "False"))]

\* variant of ExampleLoaded: an attribute that exists is not overwritten
ExampleLoadedKeepFirst(st, it, id, example_object) ==
  [st EXCEPT !.attrs[it.cls][id] = IF @ = NoAttr THEN example_object ELSE @,
             !.out = Append(@, Printed("example", it, it.doc, "True"))]

\* the try branch: setattr(class_instance, f"example{example_id}", example_object)
ExampleLoaded(st, it, id, example_object) ==
  [st EXCEPT !.attrs[it.cls][id] = example_object,
             !.out = Append(@, Printed("example", it, it.doc, "True"))]

\* st.status: "loop" while iterating, then "True" / "False" (the value
\* returned) or "exit" (sys.exit(1) on a tag without a number)
RECURSIVE ExamplesFrom(_, _, _, _)
ExamplesFrom(items, k, st, module_globals) ==
  IF st.status # "loop" THEN st
  ELSE IF k > Len(items) THEN [st EXCEPT !.status = "True"]
  ELSE LET it == items[k] IN
    IF ~HasExampleWord(it.doc) THEN ExamplesFrom(items, k + 1, st, module_globals)
    ELSE IF ExampleMatches(it.doc) = {} THEN [st EXCEPT !.status = "exit"]
    ELSE LET r == eval(payload(it.doc), eval_env(it.cls, module_globals), st.attrs) IN
      IF r.raised THEN ExamplesFrom(items, k + 1, ExampleRaised(st, it), module_globals)
      ELSE ExamplesFrom(items, k + 1, ExampleLoaded(st, it, example_id(it.doc), r.val),
                        module_globals)

(***************************************************************************)
(* run_Classes_Tests                                                       *)
(***************************************************************************)
\* variant of TestLine: an exception leaves result alone and prints PASSED: True
TestLineRaiseUnrecorded(st, it, r) ==
  IF r.raised
  THEN [st EXCEPT !.out = Append(@, Printed("test", it, payload(it.doc), "True"))]
  ELSE [st EXCEPT !.result = PyAnd(@, r.val),
                  !.out = Append(@, Printed("test", it, payload(it.doc), r.val))]

\* the ">>test:" branch
TestLine(st, it, r) ==
  IF r.raised
  THEN [st EXCEPT !.result = "False",
                  !.out = Append(@, Printed("test", it, payload(it.doc), "False"))]
  ELSE [st EXCEPT !.result = PyAnd(@, r.val),
                  !.out = Append(@, Printed("test", it, payload(it.doc), r.val))]

\* the ">>error:" branch
ErrorLine(st, it, r) ==
  IF r.raised
  THEN [st EXCEPT !.result = "True",
                  !.out = Append(@, Printed("error", it, payload(it.doc), "True"))]
  ELSE [st EXCEPT !.result = "False",
                  !.out = Append(@, Printed("error", it, payload(it.doc), "False"))]

\* the body of the inner loop for one doc
TestsStep(st, it, attrs, module_globals) ==
  IF ~(HasTestMarker(it.doc) \/ HasErrorMarker(it.doc)) THEN st
  ELSE LET counted == [st EXCEPT !.test_processed = @ + 1]
           r == eval(payload(it.doc), eval_env(it.cls, module_globals), attrs)
       IN IF HasTestMarker(it.doc) THEN TestLine(counted, it, r)
          ELSE ErrorLine(counted, it, r)

\* variant of TestsFrom: the loops stop at the first failed line
RECURSIVE TestsFromStopping(_, _, _, _, _)
TestsFromStopping(items, k, st, attrs, module_globals) ==
  IF k > Len(items) \/ ~Truthy(st.result) THEN st
  ELSE TestsFromStopping(items, k + 1, TestsStep(st, items[k], attrs, module_globals),
                         attrs, module_globals)

\* the two nested for loops from item k on
RECURSIVE TestsFrom(_, _, _, _, _)
TestsFrom(items, k, st, attrs, module_globals) ==
  IF k > Len(items) THEN st
  ELSE TestsFrom(items, k + 1, TestsStep(st, items[k], attrs, module_globals),
                 attrs, module_globals)

\* variant of tests_Return: no check that a test was processed
tests_ReturnAlways(res, processed) == res

\* the final if / else

tests_Return(res, processed) == IF processed > 0 THEN res ELSE "False"

(***************************************************************************)
(* DocCheck.run: the order of its calls                                    *)
(***************************************************************************)
\* variant of run_Next: the tests run before the examples are loaded
run_NextTestsFirst(step, res) ==
  CASE step = "root" -> "find"
    [] step = "find" -> "docstrings"
    [] step = "docstrings" -> "tests"
    [] step = "tests" -> "examples"
    [] step = "examples" -> "return"

\* the step that follows step, whose call returned res
run_Next(step, res) ==
  CASE step = "root" -> "find"
    [] step = "find" -> "docstrings"
    [] step = "docstrings" -> "examples"
    [] step = "examples" -> IF res = "False" THEN "return" ELSE "tests"
    [] step = "tests" -> "return"

(***************************************************************************)
(* Catalogues of logical lines the documentation is written from           *)
(***************************************************************************)
Line_Test_True == <<">>test", ":", " ", "(", "1", "\n", " ", " ", ")">>
Line_Test_False == <<">>test", ":", " ", "0">>
Line_Test_Raises == <<">>test", ":", " ", "boom">>
Line_Error_Raises == <<">>error", ":", " ", "boom">>
Line_Error_Returns == <<">>error", ":", " ", "1">>
Line_Error_And_Test == <<">>error", ":", " ", ">>test", ":", " ", "boom">>
Line_Example1 == <<">>example1", ":", " ", "1">>
Line_Test_And_Example == <<">>test", ":", " ", ">>example2", ":", " ", "2">>
Line_Plain == <<"a">>

Line_Example1_Other == <<">>example1", ":", " ", "2">>
Line_Example1_Raises == <<">>example1", ":", " ", "boom">>
Line_Example1_Lambda == <<">>example1", ":", " ", "lambda", ":", " ", "1">>
Line_Example2 == <<">>example2", ":", " ", "0">>
Line_Example_NoNumber == <<">>example", ":", " ", "1">>
Line_Test_Reads_A == <<">>test", ":", " ", "A.example1">>
Line_Test_Reads_B == <<">>test", ":", " ", "B.example1">>

VerdictLines ==
  {Line_Test_True, Line_Test_False, Line_Test_Raises, Line_Error_Raises,
   Line_Error_Returns, Line_Error_And_Test, Line_Example1, Line_Test_And_Example,
   Line_Plain}

ExampleLines ==
  {Line_Example1, Line_Example1_Other, Line_Example1_Raises, Line_Example1_Lambda,
   Line_Example2, Line_Example_NoNumber, Line_Test_Reads_A, Line_Test_Reads_B}

(***************************************************************************)
(* Initial states                                                          *)
(***************************************************************************)
InitPipeline(cat) ==
  /\ project \in Projects(cat)
  /\ pc = "root"
  /\ classes_list = <<>>
  /\ docstrings = [c \in {"A", "B"} |-> <<>>]
  /\ examples = [c \in {"A", "B"} |-> [i \in ExampleIds |-> NoAttr]]
  /\ stdout = <<>>
  /\ result = "True"
  /\ test_processed = 0
  /\ run_result = NotReturned
  /\ exit_code = Running

\* the variables of src/doccheck.py while that program is not the one running
NoCLI ==
  /\ argv = <<>>
  /\ python_files = <<>>
  /\ failed_total = 0
  /\ tested_files = 0

Init ==
  /\ InitPipeline(VerdictLines)
  /\ text = <<>>
  /\ logical_lines = <<>>
  /\ NoCLI

InitExamples ==
  /\ InitPipeline(ExampleLines)
  /\ text = <<>>
  /\ logical_lines = <<>>
  /\ NoCLI

(***************************************************************************)
(* main() and the steps of DocCheck.run                                    *)
(***************************************************************************)
\* sys.exit(1), or an exception nobody catches
Abort ==
  /\ pc' = "exited"
  /\ exit_code' = 1

load_Root_Package_From_Path ==
  /\ pc = "root"
  /\ \E isdir \in BOOLEAN, importable \in BOOLEAN :
       IF isdir /\ importable
       THEN pc' = run_Next("root", "None") /\ UNCHANGED exit_code
       ELSE Abort
  /\ UNCHANGED <<project, classes_list, docstrings, examples, stdout, result,
                 test_processed, run_result, text, logical_lines, cli_vars>>

find_All_Python_Classes_From_Root_Module ==
  /\ pc = "find"
  /\ \E importable \in BOOLEAN :
       IF importable
       THEN /\ classes_list' = classes_list \o project.order
            /\ pc' = run_Next("find", "None")
            /\ UNCHANGED exit_code
       ELSE Abort /\ UNCHANGED classes_list
  /\ UNCHANGED <<project, docstrings, examples, stdout, result,
                 test_processed, run_result, text, logical_lines, cli_vars>>

load_Classes_Docstrings ==
  /\ pc = "docstrings"
  /\ docstrings' = [c \in DOMAIN docstrings |->
                      IF \E k \in 1..Len(classes_list) : classes_list[k] = c
                      THEN tmp_list(project.classes[c]) ELSE docstrings[c]]
  /\ pc' = run_Next("docstrings", "None")
  /\ UNCHANGED <<project, classes_list, examples, stdout, result,
                 test_processed, run_result, exit_code, text, logical_lines, cli_vars>>

load_Classes_Examples ==
  /\ pc = "examples"
  /\ LET st == ExamplesFrom(Items(classes_list, docstrings), 1,
                            [attrs |-> examples, out |-> stdout, status |-> "loop"],
                            project.module_globals)
     IN /\ examples' = st.attrs
        /\ stdout' = st.out
        /\ IF st.status = "exit"
           THEN Abort /\ UNCHANGED run_result
           ELSE /\ pc' = run_Next("examples", st.status)
                /\ run_result' = IF st.status = "False" THEN "False" ELSE run_result
                /\ UNCHANGED exit_code
  /\ UNCHANGED <<project, classes_list, docstrings, result, test_processed,
                 text, logical_lines, cli_vars>>

run_Classes_Tests ==
  /\ pc = "tests"
  /\ LET st == TestsFrom(Items(classes_list, docstrings), 1,
                         [result |-> "True", test_processed |-> 0, out |-> stdout],
                         examples, project.module_globals)
     IN /\ result' = st.result
        /\ test_processed' = st.test_processed
        /\ stdout' = st.out
        /\ run_result' = tests_Return(st.result, st.test_processed)
  /\ pc' = run_Next("tests", "None")
  /\ UNCHANGED <<project, classes_list, docstrings, examples, exit_code,
                 text, logical_lines, cli_vars>>

\* main: sys.exit(0 if result else 1)
main_Exit ==
  /\ pc = "return"
  /\ exit_code' = IF Truthy(run_result) THEN 0 ELSE 1
  /\ pc' = "exited"
  /\ UNCHANGED <<project, classes_list, docstrings, examples, stdout, result,
                 test_processed, run_result, text, logical_lines, cli_vars>>

Next ==
  \/ load_Root_Package_From_Path
  \/ find_All_Python_Classes_From_Root_Module
  \/ load_Classes_Docstrings
  \/ load_Classes_Examples
  \/ run_Classes_Tests
  \/ main_Exit

Spec == Init /\ [][Next]_vars

SpecExamples == InitExamples /\ [][Next]_vars

(***************************************************************************)
(* Modules whose top-level bindings collide with the names of the scope    *)
(***************************************************************************)
Line_Test_Reads_Cls == <<">>test", ":", " ", "cls.example1">>
Line_Error_Reads_Cls == <<">>error", ":", " ", "cls.example1">>

ScopeLines ==
  {Line_Example1, Line_Example1_Other, Line_Test_Reads_Cls, Line_Error_Reads_Cls,
   Line_Test_Reads_A, Line_Test_Reads_B}

\* a module-level value that is not a class, such as cls = 5
NotAClass == "5"

\* sys.modules[class_instance.__module__].__dict__: the name A still bound to
\* the class or rebound after the class statement, and cls unbound or bound
ModuleGlobals ==
  {[n \in {"A", "B"} |-> IF n = "A" THEN a ELSE "B"] : a \in {"A", NotAClass}}
  \cup {[n \in {"A", "B", "cls"} |-> IF n = "A" THEN a ELSE IF n = "B" THEN "B" ELSE c] :
          a \in {"A", NotAClass}, c \in {"A", "B", NotAClass}}

ScopeProjects ==
  {[p EXCEPT !.module_globals = g] :
     p \in {q \in Projects(ScopeLines) : q.order # <<>>}, g \in ModuleGlobals}

InitScope ==
  /\ project \in ScopeProjects
  /\ pc = "root"
  /\ classes_list = <<>>
  /\ docstrings = [c \in {"A", "B"} |-> <<>>]
  /\ examples = [c \in {"A", "B"} |-> [i \in ExampleIds |-> NoAttr]]
  /\ stdout = <<>>
  /\ result = "True"
  /\ test_processed = 0
  /\ run_result = NotReturned
  /\ exit_code = Running
  /\ text = <<>>
  /\ logical_lines = <<>>
  /\ NoCLI

SpecScope == InitScope /\ [][Next]_vars

(***************************************************************************)
(* Line Reflow on its own: one call on an arbitrary documentation string   *)
(***************************************************************************)
ReflowChars == {"(", ")", "[", "]", "'", "a", " ", "\n"}

InitReflow ==
  /\ text \in SeqsUpTo(ReflowChars, MaxLen)
  /\ logical_lines = <<>>
  /\ pc = "reflow"
  /\ project = [classes |-> <<>>, order |-> <<>>, module_globals |-> <<>>]
  /\ classes_list = <<>>
  /\ docstrings = [c \in {"A", "B"} |-> <<>>]
  /\ examples = [c \in {"A", "B"} |-> [i \in ExampleIds |-> NoAttr]]
  /\ stdout = <<>>
  /\ result = "True"
  /\ test_processed = 0
  /\ run_result = NotReturned
  /\ exit_code = Running
  /\ NoCLI

Reflow ==
  /\ pc = "reflow"
  /\ logical_lines' = safe_Splitlines_Preserving_Parentheses(text)
  /\ pc' = "reflowed"
  /\ UNCHANGED <<project, classes_list, docstrings, examples, stdout, result,
                 test_processed, run_result, exit_code, text, cli_vars>>

NextReflow == Reflow

SpecReflow == InitReflow /\ [][NextReflow]_vars

(***************************************************************************)
(* src/doccheck.py: DocCheck(module) and DocCheck.run_From_CLI             *)
(***************************************************************************)
MaxFileLines == 2

\* line.strip()
RECURSIVE strip(_)
strip(line) ==
  IF line = <<>> THEN line
  ELSE IF Head(line) \in Whitespace THEN strip(Tail(line))
  ELSE IF line[Len(line)] \in Whitespace THEN strip(SubSeq(line, 1, Len(line) - 1))
  ELSE line

\* line.startswith(">>test:")
startswith_test(line) == Len(line) >= 2 /\ line[1] = ">>test" /\ line[2] = ":"

\* _run_Test_Line: 1 when the expression raises or the assert fails, else 0
run_Test_Line(expression) ==
  LET r == eval(expression, <<>>, <<>>) IN
  IF r.raised \/ ~Truthy(r.val) THEN 1 ELSE 0

\* _extract_Tests over the documentation lines of the scanned objects:
\* the number by which failed_tests grows
RECURSIVE extract_Tests(_)
extract_Tests(lines) ==
  IF lines = <<>> THEN 0
  ELSE LET line == strip(Head(lines)) IN
    (IF startswith_test(line) THEN run_Test_Line(strip(SubSeq(line, 3, Len(line)))) ELSE 0)
      + extract_Tests(Tail(lines))

\* the for loop of the auto-run mode over python_files[k..]
RECURSIVE AutoRunFrom(_, _, _)
AutoRunFrom(files, k, st) ==
  IF k > Len(files) THEN st
  ELSE IF files[k].status = "skipped" THEN AutoRunFrom(files, k + 1, st)
  ELSE IF files[k].status = "unloadable" THEN AutoRunFrom(files, k + 1, st)
  ELSE AutoRunFrom(files, k + 1,
                   [tested_files |-> st.tested_files + 1,
                    failed_total |-> st.failed_total + extract_Tests(files[k].lines)])

\* the exit status after the auto-run summary
AutoRunExit(failed) == IF failed # 0 THEN 1 ELSE 1

CLILines ==
  {<<">>test", ":", " ", "1">>, <<" ", ">>test", ":", "0">>, <<">>test", ":", "boom">>,
   <<"a", " ", ">>test", ":", " ", "0">>}

FileShapes ==
  {[status |-> "skipped", lines |-> <<>>], [status |-> "unloadable", lines |-> <<>>]}
  \cup {[status |-> "loaded", lines |-> l] : l \in SeqsUpTo(CLILines, MaxFileLines)}

Argvs == {<<>>, <<"src">>, <<"module">>, <<"src", "module">>, <<"module", "module">>}

InitCLI ==
  /\ argv \in Argvs
  /\ python_files \in SeqsUpTo(FileShapes, MaxFiles)
  /\ failed_total = 0
  /\ tested_files = 0
  /\ pc = "cli"
  /\ exit_code = Running
  /\ project = [classes |-> <<>>, order |-> <<>>, module_globals |-> <<>>]
  /\ classes_list = <<>>
  /\ docstrings = [c \in {"A", "B"} |-> <<>>]
  /\ examples = [c \in {"A", "B"} |-> [i \in ExampleIds |-> NoAttr]]
  /\ stdout = <<>>
  /\ result = "True"
  /\ test_processed = 0
  /\ run_result = NotReturned
  /\ text = <<>>
  /\ logical_lines = <<>>

run_From_CLI ==
  /\ pc = "cli"
  /\ pc' = "cli_exited"
  /\ \E src_exists \in BOOLEAN, module_runs \in BOOLEAN :
       LET src_first == argv # <<>> /\ argv[1] = "src"
           args == IF src_first THEN Tail(argv) ELSE argv
           st == AutoRunFrom(python_files, 1, [tested_files |-> 0, failed_total |-> 0])
       IN IF src_first /\ ~src_exists
          THEN exit_code' = 1 /\ UNCHANGED <<failed_total, tested_files>>
          ELSE IF args = <<>>
          THEN /\ failed_total' = st.failed_total
               /\ tested_files' = st.tested_files
               /\ exit_code' = AutoRunExit(st.failed_total)
          ELSE IF Len(args) = 1
          THEN /\ exit_code' = IF module_runs THEN 0 ELSE 1
               /\ UNCHANGED <<failed_total, tested_files>>
          ELSE exit_code' = 1 /\ UNCHANGED <<failed_total, tested_files>>
  /\ UNCHANGED <<project, classes_list, docstrings, examples, stdout, result,
                 test_processed, run_result, text, logical_lines, argv, python_files>>

NextCLI == run_From_CLI

SpecCLI == InitCLI /\ [][NextCLI]_vars

(***************************************************************************)
(* Vocabulary of the properties                                            *)
(***************************************************************************)
\* the text after the last colon of a line
TextAfterLastColon(doc) ==
  LET colons == {i \in 1..Len(doc) : doc[i] = ":"} IN
  [k \in 1..(Len(doc) - Max(colons \cup {0})) |-> doc[Max(colons \cup {0}) + k]]

TagAt(doc, i, word) == i < Len(doc) /\ doc[i] = word /\ doc[i + 1] = ":"
CarriesTest(doc) == \E i \in 1..Len(doc) : TagAt(doc, i, ">>test")
CarriesError(doc) == \E i \in 1..Len(doc) : TagAt(doc, i, ">>error")
ExampleTagPositions(doc) ==
  {i \in 1..Len(doc) : TagAt(doc, i, ">>example1") \/ TagAt(doc, i, ">>example2")}
CarriesExample(doc) == ExampleTagPositions(doc) # {}

\* the classification of a logical line by the tag parser's detection order
IsExampleLine(doc) == CarriesExample(doc)
IsErrorLine(doc) == ~CarriesExample(doc) /\ CarriesError(doc)
IsTestLine(doc) == ~CarriesExample(doc) /\ ~CarriesError(doc) /\ CarriesTest(doc)

\* every logical line of every declaration, declaration order then line order
AllLines ==
  LET n == Len(classes_list)
      count(k) == Len(docstrings[classes_list[k]])
      before(k) == IF k = 1 THEN 0 ELSE
                     LET RECURSIVE sum(_)
                         sum(j) == IF j = 0 THEN 0 ELSE count(j) + sum(j - 1)
                     IN sum(k - 1)
      total == IF n = 0 THEN 0 ELSE before(n) + count(n)
      owner(p) == CHOOSE k \in 1..n : before(k) < p /\ p <= before(k) + count(k)
  IN [p \in 1..total |->
        [cls |-> classes_list[owner(p)],
         doc |-> docstrings[classes_list[owner(p)]][p - before(owner(p))]]]

\* the lines that carry a test or an error tag
TaggedLines == SelectSeq(AllLines, LAMBDA it : CarriesTest(it.doc) \/ CarriesError(it.doc))

ExampleEvents == SelectSeq(stdout, LAMBDA ev : ev.kind = "example")
CheckEvents == SelectSeq(stdout, LAMBDA ev : ev.kind \in {"test", "error"})

\* an example expression raised while the examples were loaded
ExampleBuildFailed == \E k \in 1..Len(stdout) : stdout[k].kind = "example" /\ stdout[k].passed = "False"

\* run_Classes_Tests has returned
TestsFinished == run_result # NotReturned /\ ~ExampleBuildFailed

\* load_Classes_Examples has returned True
ExamplesLoaded == pc = "tests" \/ TestsFinished

\* the scope in which the lines of class c are evaluated
ScopeOf(c) == project.module_globals @@ [n \in {"cls", c} |-> c]

\* what evaluating the expression of tagged line k yields once the examples are loaded
OutcomeOf(k) == eval(TextAfterLastColon(TaggedLines[k].doc), ScopeOf(TaggedLines[k].cls), examples)

(***************************************************************************)
(* C1. The verdict is "all passed" only if no evaluated line failed: once  *)
(* run_Classes_Tests has returned, if some test line was printed with a    *)
(* falsy PASSED value or some error line with PASSED False, the value      *)
(* returned to main is falsy.                                              *)
(***************************************************************************)
SomeLineFailed == \E k \in 1..Len(CheckEvents) : ~Truthy(CheckEvents[k].passed)

C1_VerdictOnlyIfNoLineFailed ==
  (TestsFinished /\ SomeLineFailed) => ~Truthy(run_result)

(***************************************************************************)
(* C4. A run in which no logical line carries a test or error tag ends     *)
(* with a failure verdict although no check failed.                        *)
(***************************************************************************)
C4_NoTestsIsFailure ==
  (TestsFinished /\ TaggedLines = <<>>) =>
     /\ run_result = "False"
     /\ ~SomeLineFailed
     /\ (pc = "exited" => exit_code = 1)

C4_Witness ==
  /\ pc = "exited" /\ TestsFinished /\ TaggedLines = <<>>
  /\ ExampleEvents # <<>>

(***************************************************************************)
(* C5. A test line whose expression is truthy is recorded as passed, one   *)
(* whose expression is falsy or raises is recorded as failed, and the      *)
(* counter of evaluated lines grows by exactly one for it either way: the  *)
(* counter equals the number of printed records, and record k belongs to   *)
(* tagged line k.  Stated for every line that carries the test tag, which  *)
(* includes every line the tag parser classifies as a test line.           *)
(***************************************************************************)
C5_TestLineRecorded ==
  TestsFinished =>
    /\ test_processed = Len(CheckEvents)
    /\ \A k \in 1..Len(TaggedLines) :
         CarriesTest(TaggedLines[k].doc) =>
           /\ k <= Len(CheckEvents)
           /\ CheckEvents[k].cls = TaggedLines[k].cls
           /\ CheckEvents[k].text = TextAfterLastColon(TaggedLines[k].doc)
           /\ Truthy(CheckEvents[k].passed)
                <=> (~OutcomeOf(k).raised /\ Truthy(OutcomeOf(k).val))

C5_Witness ==
  /\ TestsFinished
  /\ \E i, j, k \in 1..Len(TaggedLines) :
       /\ IsTestLine(TaggedLines[i].doc) /\ OutcomeOf(i).raised
       /\ IsTestLine(TaggedLines[j].doc) /\ ~OutcomeOf(j).raised /\ ~Truthy(OutcomeOf(j).val)
       /\ IsTestLine(TaggedLines[k].doc) /\ ~OutcomeOf(k).raised /\ Truthy(OutcomeOf(k).val)

(***************************************************************************)
(* C6. An error line whose expression raises is recorded as passed, one    *)
(* whose expression completes without raising is recorded as failed.       *)
(***************************************************************************)
C6_ErrorLineRecorded ==
  TestsFinished =>
    \A k \in 1..Len(TaggedLines) :
       IsErrorLine(TaggedLines[k].doc) =>
         /\ k <= Len(CheckEvents)
         /\ Truthy(CheckEvents[k].passed) <=> OutcomeOf(k).raised

(***************************************************************************)
(* C9. A failed line does not stop the run: when run_Classes_Tests has     *)
(* returned, the printed records are exactly the tagged lines, each once,  *)
(* in declaration order then line order, and the counter is their number.  *)
(***************************************************************************)
C9_EveryTaggedLineEvaluatedOnce ==
  TestsFinished =>
    /\ test_processed = Len(TaggedLines)
    /\ [k \in 1..Len(CheckEvents) |-> <<CheckEvents[k].cls, CheckEvents[k].text>>]
         = [k \in 1..Len(TaggedLines) |->
              <<TaggedLines[k].cls, TextAfterLastColon(TaggedLines[k].doc)>>]

C9_Witness ==
  /\ TestsFinished
  /\ Len(CheckEvents) = 3
  /\ ~Truthy(CheckEvents[1].passed)
  /\ CheckEvents[1].cls # CheckEvents[3].cls

(***************************************************************************)
(* C2. If an example expression raises while the examples are loaded, the  *)
(* run returns failure and no test or error line is evaluated afterwards.  *)
(***************************************************************************)
C2_ExampleFailureIsFatal ==
  ExampleBuildFailed =>
    /\ pc \in {"return", "exited"}
    /\ run_result = "False"
    /\ CheckEvents = <<>>
    /\ stdout[Len(stdout)].passed = "False"
    /\ (pc = "exited" => exit_code = 1)

C2_Witness ==
  /\ ExampleBuildFailed
  /\ pc = "exited"
  /\ TaggedLines # <<>>
  /\ Len(ExampleEvents) = 2

(***************************************************************************)
(* C3. Every example tag of every declaration is evaluated before the      *)
(* first test or error line of any declaration: no example record follows  *)
(* a test record, when a test record exists every example line has its     *)
(* record, and a test that reads A.example1 or B.example1 gets the value   *)
(* the example line of that class stored, whichever class comes first.     *)
(***************************************************************************)
ExampleLinesOf(c) ==
  {j \in 1..Len(docstrings[c]) : CarriesExample(docstrings[c][j])}

\* the id of the first example tag of a line, and the full text written after it
TagId(doc) == IF doc[Min(ExampleTagPositions(doc))] = ">>example1" THEN 1 ELSE 2
OwnExpression(doc) == SubSeq(doc, Min(ExampleTagPositions(doc)) + 2, Len(doc))

HasExample1(c) == \E j \in ExampleLinesOf(c) : TagId(docstrings[c][j]) = 1

C3_ExamplesBeforeTests ==
  /\ \A i, j \in 1..Len(stdout) :
       (i < j /\ stdout[i].kind \in {"test", "error"}) => stdout[j].kind # "example"
  /\ CheckEvents # <<>> =>
       /\ Len(ExampleEvents) = Len(SelectSeq(AllLines, LAMBDA it : CarriesExample(it.doc)))
       /\ \A k \in 1..Len(CheckEvents) :
            /\ (CheckEvents[k].text = TextAfterLastColon(Line_Test_Reads_A) /\ HasExample1("A"))
               => (examples["A"][1] # NoAttr /\ CheckEvents[k].passed = examples["A"][1])
            /\ (CheckEvents[k].text = TextAfterLastColon(Line_Test_Reads_B) /\ HasExample1("B"))
               => (examples["B"][1] # NoAttr /\ CheckEvents[k].passed = examples["B"][1])

C3_Witness ==
  /\ pc = "exited"
  /\ \E i \in 1..Len(CheckEvents) :
       /\ CheckEvents[i].cls = "A" /\ CheckEvents[i].text = TextAfterLastColon(Line_Test_Reads_B)
       /\ CheckEvents[i].passed = "1"
  /\ Len(ExampleEvents) = 2

(***************************************************************************)
(* C7. After the examples are loaded, every well-formed example<N> tag     *)
(* has its own expression's value in the attribute example<N>.             *)
(***************************************************************************)
C7_EveryExampleTagStored ==
  ExamplesLoaded =>
    \A c \in DOMAIN docstrings : \A j \in ExampleLinesOf(c) :
       LET doc == docstrings[c][j]
           own == eval(OwnExpression(doc), ScopeOf(c), examples)
       IN ~own.raised /\ examples[c][TagId(doc)] = own.val

(***************************************************************************)
(* C7, amended.  After the examples are loaded, the attribute example<N>   *)
(* of a declaration holds the value of the text after the last colon of    *)
(* the last of its lines whose example tag is example<N>.                  *)
(***************************************************************************)
C7_LastTagPayloadStored ==
  ExamplesLoaded =>
    \A c \in DOMAIN docstrings : \A n \in ExampleIds :
       LET tagged == {j \in ExampleLinesOf(c) : TagId(docstrings[c][j]) = n} IN
       IF tagged = {} THEN examples[c][n] = NoAttr
       ELSE LET last == eval(TextAfterLastColon(docstrings[c][Max(tagged)]), ScopeOf(c), examples)
            IN ~last.raised /\ examples[c][n] = last.val

C7_Witness ==
  /\ ExamplesLoaded
  /\ \E c \in DOMAIN docstrings : \E i, j \in ExampleLinesOf(c) :
       /\ i < j
       /\ docstrings[c][i] = Line_Example1
       /\ docstrings[c][j] = Line_Example1_Lambda
       /\ examples[c][1] = "1"

(***************************************************************************)
(* C8. A documentation string that contains an expression enclosed in      *)
(* (), [] or {} spanning several raw lines is reflowed so that one logical *)
(* line contains the whole expression, its whitespace runs (line breaks    *)
(* included) collapsed to single spaces.                                   *)
(***************************************************************************)
Openers == {"(", "[", "{"}
Closers == {")", "]", "}"}
CloserOf(ch) == CASE ch = "(" -> ")" [] ch = "[" -> "]" [] ch = "{" -> "}"

\* position k lies inside a string literal, or is one of its quotes
InLiteral(s, k) ==
  s[k] = "'" \/ Cardinality({m \in 1..(k - 1) : s[m] = "'"}) % 2 = 1

\* reading s[k..j] with the brackets of open still to close (innermost
\* first): every bracket outside string literals matches, and the last
\* one closes at j exactly
RECURSIVE ClosesAt(_, _, _, _)
ClosesAt(s, k, j, open) ==
  IF k > j THEN FALSE
  ELSE IF InLiteral(s, k) THEN s[k] # "\n" /\ ClosesAt(s, k + 1, j, open)
  ELSE IF s[k] \in Openers THEN ClosesAt(s, k + 1, j, <<CloserOf(s[k])>> \o open)
  ELSE IF s[k] \in Closers THEN
         /\ open # <<>> /\ s[k] = Head(open)
         /\ IF Len(open) = 1 THEN k = j ELSE ClosesAt(s, k + 1, j, Tail(open))
  ELSE ClosesAt(s, k + 1, j, open)

\* s[i..j] is a bracketed expression that spans several raw lines
EnclosedMultiline(s, i, j) ==
  /\ i < j /\ s[i] \in Openers /\ ~InLiteral(s, i)
  /\ ClosesAt(s, i, j, <<>>)
  /\ \E k \in (i + 1)..(j - 1) : s[k] = "\n"

\* every run of spaces and line breaks replaced by one space
RECURSIVE SingleSpaced(_)
SingleSpaced(e) ==
  IF e = <<>> THEN <<>>
  ELSE IF Head(e) \notin {" ", "\n"} THEN <<Head(e)>> \o SingleSpaced(Tail(e))
  ELSE IF Len(e) > 1 /\ e[2] \in {" ", "\n"} THEN SingleSpaced(Tail(e))
  ELSE <<" ">> \o SingleSpaced(Tail(e))

Contains(line, e) ==
  \E o \in 0..(Len(line) - Len(e)) : \A k \in 1..Len(e) : line[o + k] = e[k]

C8_MultilineExpressionOnOneLine ==
  pc = "reflowed" =>
    \A i, j \in 1..Len(text) :
       EnclosedMultiline(text, i, j) =>
         \E n \in 1..Len(logical_lines) :
            Contains(logical_lines[n], SingleSpaced(SubSeq(text, i, j)))

(***************************************************************************)
(* C10. Each command-line entry point ends the process with exit code 0    *)
(* when all tests passed and with a non-zero exit code otherwise: main()   *)
(* by the value DocCheck.run returned, the auto-run mode of run_From_CLI   *)
(* by the number of failed tests.                                          *)
(***************************************************************************)
\* the auto-run mode evaluated at least one test line
SomeTestRunByCLI ==
  \E k \in 1..Len(python_files) :
     /\ python_files[k].status = "loaded"
     /\ \E j \in 1..Len(python_files[k].lines) :
          LET line == python_files[k].lines[j]
              first == Min({i \in 1..Len(line) : line[i] # " "})
          IN TagAt(line, first, ">>test")

C10_ExitCodeReflectsVerdict ==
  /\ (pc = "exited" /\ run_result # NotReturned) => (exit_code = 0 <=> Truthy(run_result))
  /\ (pc = "cli_exited" /\ argv = <<>> /\ SomeTestRunByCLI)
        => (exit_code = 0 <=> failed_total = 0)

(***************************************************************************)
(* C11. In the scope of a test or error line the declaration's own         *)
(* bindings (cls and the declaration's name) win over the module's         *)
(* top-level bindings of the same names: every line is recorded as its     *)
(* expression evaluates with cls and the declaration's name denoting the   *)
(* declaration.                                                            *)
(***************************************************************************)
\* the scope in which the declaration's bindings take precedence
DeclarationFirstScope(c) == [n \in {"cls", c} |-> c] @@ project.module_globals

C11_DeclarationBindingsWin ==
  TestsFinished =>
    \A k \in 1..Len(TaggedLines) :
       LET c == TaggedLines[k].cls
           o == eval(TextAfterLastColon(TaggedLines[k].doc), DeclarationFirstScope(c), examples)
       IN /\ k <= Len(CheckEvents)
          /\ CheckEvents[k].kind = "test" => (Truthy(CheckEvents[k].passed) <=> (~o.raised /\ Truthy(o.val)))
          /\ CheckEvents[k].kind = "error" => (Truthy(CheckEvents[k].passed) <=> o.raised)

(***************************************************************************)
(* C12. Every logical line is exactly one of Example, Error, Test or       *)
(* Plain, the example marker being looked for first, then the error        *)
(* marker, then the test marker: when run_Classes_Tests has returned, the  *)
(* recorded checks are the Error and Test lines in order, a line with an   *)
(* example marker is not among them, and a line with both the error and    *)
(* the test marker is recorded with must-raise semantics.                  *)
(***************************************************************************)
\* the lines the detection order classifies as Error or Test
ClassifiedChecks == SelectSeq(AllLines, LAMBDA it : IsErrorLine(it.doc) \/ IsTestLine(it.doc))

C12_ClassifiedInDetectionOrder ==
  TestsFinished =>
    /\ Len(CheckEvents) = Len(ClassifiedChecks)
    /\ \A k \in 1..Min({Len(CheckEvents), Len(ClassifiedChecks)}) :
         LET it == ClassifiedChecks[k]
             o == eval(TextAfterLastColon(it.doc), ScopeOf(it.cls), examples)
         IN /\ CheckEvents[k].cls = it.cls
            /\ CheckEvents[k].text = payload(it.doc)
            /\ IsErrorLine(it.doc) => (Truthy(CheckEvents[k].passed) <=> o.raised)
            /\ IsTestLine(it.doc) => (Truthy(CheckEvents[k].passed) <=> (~o.raised /\ Truthy(o.val)))

(***************************************************************************)
(* C13. After load_Classes_Docstrings the logical lines of a declaration   *)
(* are the reflowed lines of its own documentation followed by the         *)
(* reflowed lines of the documentation of every directly-owned callable    *)
(* member in alphabetical order, whether the member is a plain method, a   *)
(* staticmethod or a classmethod.                                          *)
(***************************************************************************)
\* the lines of a declaration when every callable member contributes
EveryMemberLines(class_instance) ==
  LET own == IF class_instance.doc # NoDoc
             THEN safe_Splitlines_Preserving_Parentheses(class_instance.doc) ELSE <<>>
      member_lines(n) == IF n \in DOMAIN class_instance.members
                            /\ class_instance.members[n].doc # NoDoc
                         THEN safe_Splitlines_Preserving_Parentheses(class_instance.members[n].doc)
                         ELSE <<>>
  IN own \o Flatten([k \in 1..Len(SortedMemberNames) |-> member_lines(SortedMemberNames[k])])

C13_EveryCallableMemberContributes ==
  pc \in {"examples", "tests", "return"} =>
    \A k \in 1..Len(classes_list) :
       docstrings[classes_list[k]] = EveryMemberLines(project.classes[classes_list[k]])

====
